---- MODULE Spec2Model ----
(***************************************************************************)
(* Model of src/src/game.rs: Cell, Column/Row, Coordinates and Grid of a   *)
(* Game of Life on a finite grid.                                          *)
(*                                                                         *)
(* A Grid is a Vec<Vec<Cell>>: the outer vector holds the columns, the     *)
(* inner vectors the rows, so cells[x][y] is the cell at column x, row y.  *)
(* Rust indexes from 0, TLA+ sequences from 1: the cell at column x, row y *)
(* is cells[x + 1][y + 1] here.                                            *)
(***************************************************************************)
EXTENDS Integers, Sequences, FiniteSets, TLC

\* ---------------------------------------------------------------- bounds
\* the largest grid of the populate / cell / next scenario
MaxColumns == 2
MaxRows == 2
\* the largest grid next() is applied to on its own
StepColumns == 2
StepRows == 3
\* the largest small coordinate neighbours() is asked about
MaxCoordinate == 8

\* -------------------------------------------------------------- constants
U16Max == 65535

VARIABLES
    columns,    \* the `columns` argument Grid::new was called with
    rows,       \* the `rows` argument Grid::new was called with
    cells,      \* Grid.cells
    pre,        \* Grid.cells as it was when the last operation was called
    op,         \* the last operation and its arguments
    ret,        \* what the last operation returned
    neigh,      \* the Vec the last neighbours / neighbour_cells returned
    counted     \* the value of `populated` Grid::next used at each cell

vars == <<columns, rows, cells, pre, op, ret, neigh, counted>>

\* ------------------------------------------------------------------ Cell
Empty == "Empty"
Populated == "Populated"

\* a default that is the other variant
Cell_default_populated == Populated

Cell_default == Empty

Cell_populated == Populated

is_empty(c) == c = Empty

is_populated(c) == c = Populated

die(c) == Empty

spawn(c) == Populated

\* ---------------------------------------------------------- Option<T>
None == <<>>

Some(x) == <<x>>

\* ---------------------------------------------------------- Column, Row
\* a subtraction that wraps around below zero instead of returning None
Column_try_sub_wrapping(lh, rh) == Some((lh - rh) % (U16Max + 1))

Column_try_sub(lh, rh) == IF lh > rh THEN Some(lh - rh) ELSE None

Row_try_sub(lh, rh) == IF lh > rh THEN Some(lh - rh) ELSE None

\* u16 `+`: a release build wraps, a debug build panics (see add_overflows)
\* an addition that saturates at the largest u16
Column_add_saturating(lh, rhs) ==
    IF lh + rhs > U16Max THEN U16Max ELSE lh + rhs

Column_add(lh, rhs) == (lh + rhs) % (U16Max + 1)

Row_add(lh, rhs) == (lh + rhs) % (U16Max + 1)

add_overflows(lh, rhs) == lh + rhs > U16Max

\* ----------------------------------------------------------- Coordinates
Coordinates_new(column, row) == [column |-> column, row |-> row]

Coordinates_neighbours(column, row) ==
    LET cs == Column_try_sub(column, 1)
        rs == Row_try_sub(row, 1)
        n1 == IF cs # None /\ rs # None
              THEN <<Coordinates_new(cs[1], rs[1])>> ELSE <<>>
        n2 == IF cs # None
              THEN <<Coordinates_new(cs[1], row)>> ELSE <<>>
        n3 == IF cs # None
              THEN <<Coordinates_new(cs[1], Row_add(row, 1))>> ELSE <<>>
        n4 == <<Coordinates_new(column, Row_add(row, 1))>>
        n5 == <<Coordinates_new(Column_add(column, 1), Row_add(row, 1))>>
        n6 == <<Coordinates_new(Column_add(column, 1), row)>>
        n7 == IF rs # None
              THEN <<Coordinates_new(Column_add(column, 1), rs[1])>> ELSE <<>>
        n8 == IF rs # None
              THEN <<Coordinates_new(column, rs[1])>> ELSE <<>>
    IN  n1 \o n2 \o n3 \o n4 \o n5 \o n6 \o n7 \o n8

\* neighbours() with an unchecked `- 1`, which underflows at the 0 edges
neighbours_panics_unchecked_sub(column, row) ==
    column = 0 \/ row = 0 \/ add_overflows(column, 1) \/ add_overflows(row, 1)

\* a debug build panics in neighbours() on `self.row + 1` / `self.column + 1`
neighbours_panics(column, row) ==
    add_overflows(column, 1) \/ add_overflows(row, 1)

\* ------------------------------------------------------------------ Grid
Grid_new(cols, rws) ==
    [x \in 1..cols |-> [y \in 1..rws |-> Cell_default]]

Grid_cell_transposed(g, column_index, row_index) ==
    IF row_index < Len(g)
    THEN IF column_index < Len(g[row_index + 1])
         THEN Some(g[row_index + 1][column_index + 1])
         ELSE None
    ELSE None

Grid_cell(g, column_index, row_index) ==
    IF column_index < Len(g)
    THEN IF row_index < Len(g[column_index + 1])
         THEN Some(g[column_index + 1][row_index + 1])
         ELSE None
    ELSE None

\* populate that clamps an out-of-range row to the last row of the column
Grid_populate_clamped(g, column_index, row_index) ==
    IF column_index < Len(g)
    THEN IF Len(g[column_index + 1]) > 0
         THEN LET y == IF row_index < Len(g[column_index + 1])
                       THEN row_index + 1 ELSE Len(g[column_index + 1])
              IN [cells |-> [g EXCEPT ![column_index + 1][y] = spawn(@)],
                  ret |-> IF row_index < Len(g[column_index + 1])
                          THEN "Ok" ELSE "Err"]
         ELSE [cells |-> g, ret |-> "Err"]
    ELSE [cells |-> g, ret |-> "Err"]

\* populate that flips the cell instead of spawning it
Grid_populate_toggle(g, column_index, row_index) ==
    IF column_index < Len(g)
    THEN IF row_index < Len(g[column_index + 1])
         THEN [cells |-> [g EXCEPT ![column_index + 1][row_index + 1] =
                              IF is_populated(@) THEN die(@) ELSE spawn(@)],
               ret |-> "Ok"]
         ELSE [cells |-> g, ret |-> "Err"]
    ELSE [cells |-> g, ret |-> "Err"]

\* populate that pushes a new Populated cell onto the column when the row
\* does not exist yet
Grid_populate_grow(g, column_index, row_index) ==
    IF column_index < Len(g)
    THEN IF row_index < Len(g[column_index + 1])
         THEN [cells |-> [g EXCEPT ![column_index + 1][row_index + 1] = spawn(@)],
               ret |-> "Ok"]
         ELSE [cells |-> [g EXCEPT ![column_index + 1] = Append(@, Cell_populated)],
               ret |-> "Ok"]
    ELSE [cells |-> g, ret |-> "Err"]

Grid_populate(g, column_index, row_index) ==
    IF column_index < Len(g)
    THEN IF row_index < Len(g[column_index + 1])
         THEN [cells |-> [g EXCEPT ![column_index + 1][row_index + 1] = spawn(@)],
               ret |-> "Ok"]
         ELSE [cells |-> g, ret |-> "Err"]
    ELSE [cells |-> g, ret |-> "Err"]

Grid_neighbour_cells(g, column_index, row_index) ==
    LET coordinates == Coordinates_neighbours(column_index, row_index)
        \* self.cell(..) of every coordinate, in order
        looked == [k \in DOMAIN coordinates |->
                      Grid_cell(g, coordinates[k].column, coordinates[k].row)]
        \* `if let Some(cell) = ..`: the lookups that found a cell
        found == SelectSeq(looked, LAMBDA o : o # None)
    IN  [k \in DOMAIN found |-> found[k][1]]

\* the `for cell in neighbours` loop of next
count_populated(neighbours) ==
    Cardinality({k \in 1..Len(neighbours) : is_populated(neighbours[k])})

\* `i as u16`, `j as u16`
as_u16(n) == n % (U16Max + 1)

\* the body of next's inner loop that never lets a cell die
next_cell_keep(g, i, j) ==
    LET column == as_u16(i)
        row == as_u16(j)
    IN  [cells |-> g,
         populated |-> count_populated(Grid_neighbour_cells(g, column, row))]

\* the body of next's inner loop with a birth rule: an Empty cell with
\* exactly 3 Populated neighbours spawns
next_cell_birth(g, i, j) ==
    LET column == as_u16(i)
        row == as_u16(j)
        populated == count_populated(Grid_neighbour_cells(g, column, row))
    IN  [cells |-> IF populated < 2
                   THEN [g EXCEPT ![i + 1][j + 1] = die(@)]
                   ELSE IF populated = 3
                   THEN [g EXCEPT ![i + 1][j + 1] = spawn(@)]
                   ELSE g,
         populated |-> populated]

\* the body of next's inner loop that calls spawn() where die() is meant
next_cell_spawn(g, i, j) ==
    LET column == as_u16(i)
        row == as_u16(j)
        populated == count_populated(Grid_neighbour_cells(g, column, row))
    IN  [cells |-> IF populated < 2
                   THEN [g EXCEPT ![i + 1][j + 1] = spawn(@)]
                   ELSE g,
         populated |-> populated]

\* the body of next's inner loop, for the cell cells[i][j]
next_cell(g, i, j) ==
    LET column == as_u16(i)
        row == as_u16(j)
        populated == count_populated(Grid_neighbour_cells(g, column, row))
    IN  [cells |-> IF populated < 2
                   THEN [g EXCEPT ![i + 1][j + 1] = die(@)]
                   ELSE g,
         populated |-> populated]

RECURSIVE next_from(_, _, _, _, _)
\* the two nested loops of next, from column i, row j on; cnt collects the
\* value of `populated` at each cell.  A debug build stops with a panic at a
\* cell whose neighbours() overflows.
next_from(g, cnt, i, j, build) ==
    IF i >= Len(g) THEN [cells |-> g, counted |-> cnt, ret |-> "Unit"]
    ELSE IF j >= Len(g[i + 1]) THEN next_from(g, cnt, i + 1, 0, build)
    ELSE IF build = "debug" /\ neighbours_panics(as_u16(i), as_u16(j))
         THEN [cells |-> g, counted |-> cnt, ret |-> "Panic"]
    ELSE \* s is bound by a set so that the cell is processed once
         CHOOSE out \in
             {next_from(s.cells,
                        [cnt EXCEPT ![i + 1][j + 1] = s.populated],
                        i, j + 1, build) : s \in {next_cell(g, i, j)}} : TRUE

Grid_next(g, build) ==
    next_from(g, [x \in DOMAIN g |-> [y \in DOMAIN g[x] |-> 0]], 0, 0, build)

\* --------------------------------------------------------------- inputs
Builds == {"debug", "release"}

\* the builds whose next() can differ on grid g: a debug build differs from
\* a release build only where a `+ 1` of neighbours() overflows
next_builds(g) ==
    IF \E x \in DOMAIN g :
           \E y \in DOMAIN g[x] : neighbours_panics(as_u16(x - 1), as_u16(y - 1))
    THEN Builds
    ELSE {"release"}

\* the indexes populate and cell are called with: every index of the largest
\* grid and one beyond it
ColumnIndexes == 0..MaxColumns

RowIndexes == 0..MaxRows

\* coordinates neighbours() is asked about: small ones and the top of u16
CoordinateValues == 0..MaxCoordinate \cup {U16Max - 1, U16Max}

\* the positions the blinker scenario populates: the horizontal and the
\* vertical blinker of a 5x5 grid, a corner, and one position off the grid
BlinkerPositions ==
    {<<1, 2>>, <<2, 2>>, <<3, 2>>, <<2, 1>>, <<2, 3>>, <<0, 0>>, <<5, 2>>}

NoOp == [name |-> "new", column |-> 0, row |-> 0]

\* ---------------------------------------------------------------- Init
Init ==
    /\ columns \in 0..MaxColumns
    /\ rows \in 0..MaxRows
    /\ cells = Grid_new(columns, rows)
    /\ pre = cells
    /\ op = NoOp
    /\ ret = "Unit"
    /\ neigh = <<>>
    /\ counted = <<>>

\* -------------------------------------------------------------- actions
PopulateAt(column_index, row_index) ==
    \E r \in {Grid_populate(cells, column_index, row_index)} :
        /\ cells' = r.cells
        /\ ret' = r.ret
        /\ pre' = cells
        /\ op' = [name |-> "populate", column |-> column_index, row |-> row_index]
        /\ neigh' = <<>>
        /\ counted' = <<>>
        /\ UNCHANGED <<columns, rows>>

Populate == \E column_index \in ColumnIndexes, row_index \in RowIndexes :
                PopulateAt(column_index, row_index)

Cell ==
    \E column_index \in ColumnIndexes, row_index \in RowIndexes :
        \E r \in {Grid_cell(cells, column_index, row_index)} :
            /\ ret' = IF r = None THEN "None" ELSE r[1]
            /\ pre' = cells
            /\ op' = [name |-> "cell", column |-> column_index, row |-> row_index]
            /\ neigh' = <<>>
            /\ counted' = <<>>
            /\ UNCHANGED <<columns, rows, cells>>

Step ==
    \E build \in next_builds(cells) :
        \E r \in {Grid_next(cells, build)} :
            /\ cells' = r.cells
            /\ counted' = r.counted
            /\ ret' = r.ret
            /\ pre' = cells
            /\ op' = [name |-> "next", column |-> 0, row |-> 0]
            /\ neigh' = <<>>
            /\ UNCHANGED <<columns, rows>>

NeighboursOf(column, row, build) ==
    /\ IF build = "debug" /\ neighbours_panics(column, row)
       THEN /\ ret' = "Panic"
            /\ neigh' = <<>>
       ELSE /\ ret' = "Vec"
            /\ neigh' = Coordinates_neighbours(column, row)
    /\ pre' = cells
    /\ op' = [name |-> "neighbours", column |-> column, row |-> row]
    /\ counted' = <<>>
    /\ UNCHANGED <<columns, rows, cells>>

Neighbours ==
    \E column \in CoordinateValues, row \in CoordinateValues, build \in Builds :
        NeighboursOf(column, row, build)

Next == Populate \/ Cell \/ Step

Spec == Init /\ [][Next]_vars

\* ------------------------------------------------------ Grid::next alone
\* the grids next() can be called on: every grid that Grid::new followed by
\* populate calls can build, that is every rectangular grid of Empty and
\* Populated cells
Grids(cols, rws) == [1..cols -> [1..rws -> {Empty, Populated}]]

InitStep ==
    /\ columns \in 0..StepColumns
    /\ rows \in 0..StepRows
    /\ cells \in Grids(columns, rows)
    /\ pre = cells
    /\ op = NoOp
    /\ ret = "Unit"
    /\ neigh = <<>>
    /\ counted = <<>>

NextStep == Step

SpecStep == InitStep /\ [][NextStep]_vars

\* --------------------------------------------- Grid::neighbour_cells alone
NeighbourCells ==
    \E column_index \in 0..StepColumns, row_index \in 0..StepRows :
        /\ neigh' = Grid_neighbour_cells(cells, column_index, row_index)
        /\ ret' = "Vec"
        /\ pre' = cells
        /\ op' = [name |-> "neighbour_cells",
                  column |-> column_index, row |-> row_index]
        /\ counted' = <<>>
        /\ UNCHANGED <<columns, rows, cells>>

NextNeighbourCells == NeighbourCells

SpecNeighbourCells == InitStep /\ [][NextNeighbourCells]_vars

\* ------------------------------------------- Coordinates::neighbours alone
\* neighbours() does not read a grid: it is exercised on its own inputs
InitCoordinates ==
    /\ columns = 0
    /\ rows = 0
    /\ cells = Grid_new(columns, rows)
    /\ pre = cells
    /\ op = NoOp
    /\ ret = "Unit"
    /\ neigh = <<>>
    /\ counted = <<>>

NextCoordinates == Neighbours

SpecCoordinates == InitCoordinates /\ [][NextCoordinates]_vars

\* ------------------------------------------- grids of the largest u16 size
\* the widest and the tallest grid Grid::new can build, one cell thick or
\* without a cell,
\* and their neighbours in size
WideDimensions ==
    {<<U16Max, 1>>, <<1, U16Max>>, <<U16Max - 1, 1>>, <<1, U16Max - 1>>,
     <<U16Max, 0>>, <<0, U16Max>>}

\* the coordinates at both ends of the u16 range
EdgeCoordinateValues == {0, 1, U16Max - 1, U16Max}

InitWide ==
    /\ \E d \in WideDimensions :
           /\ columns = d[1]
           /\ rows = d[2]
    /\ cells = Grid_new(columns, rows)
    /\ pre = cells
    /\ op = NoOp
    /\ ret = "Unit"
    /\ neigh = <<>>
    /\ counted = <<>>

NeighboursEdge ==
    \E column \in EdgeCoordinateValues, row \in EdgeCoordinateValues,
       build \in Builds :
        NeighboursOf(column, row, build)

NextWide == NeighboursEdge

SpecWide == InitWide /\ [][NextWide]_vars

\* ------------------------------------------------- the 5x5 blinker scenario
InitBlinker ==
    /\ columns = 5
    /\ rows = 5
    /\ cells = Grid_new(columns, rows)
    /\ pre = cells
    /\ op = NoOp
    /\ ret = "Unit"
    /\ neigh = <<>>
    /\ counted = <<>>

PopulateBlinker == \E p \in BlinkerPositions : PopulateAt(p[1], p[2])

NextBlinker == PopulateBlinker \/ Step

SpecBlinker == InitBlinker /\ [][NextBlinker]_vars

\* ------------------------------------------------ vocabulary of the claims
\* the in-bounds positions <<column, row>> of a grid
Positions(g) ==
    UNION {{<<x - 1, y - 1>> : y \in DOMAIN g[x]} : x \in DOMAIN g}

At(g, p) == g[p[1] + 1][p[2] + 1]

Deltas == {d \in {-1, 0, 1} \X {-1, 0, 1} : d # <<0, 0>>}

\* the Moore neighbourhood of a coordinate, as a set of coordinates
Moore(column, row) ==
    {Coordinates_new(column + d[1], row + d[2]) : d \in Deltas}

\* the number of Populated in-bounds Moore neighbours of position p in g
MooreCount(g, p) ==
    Cardinality({d \in Deltas :
        /\ p[1] + d[1] >= 0
        /\ p[2] + d[2] >= 0
        /\ p[1] + d[1] < Len(g)
        /\ p[2] + d[2] < Len(g[p[1] + d[1] + 1])
        /\ is_populated(g[p[1] + d[1] + 1][p[2] + d[2] + 1])})

SameShape(g, h) ==
    /\ Len(g) = Len(h)
    /\ \A x \in DOMAIN g : Len(g[x]) = Len(h[x])

Stepped == op.name = "next" /\ ret = "Unit"

SeqToSet(s) == {s[k] : k \in DOMAIN s}

\* the 5x5 grid whose Populated cells are exactly the positions in ps
Grid5(ps) ==
    [x \in 1..5 |-> [y \in 1..5 |->
        IF <<x - 1, y - 1>> \in ps THEN Populated ELSE Empty]]

\* ------------------------------------------------------------------ claims

\* C1 (Birth): a cell that is Empty before next() and has exactly 3
\* Populated in-bounds Moore neighbours in the pre-step grid is Populated
\* after next().
C1_Birth ==
    Stepped =>
        \A p \in Positions(pre) :
            (is_empty(At(pre, p)) /\ MooreCount(pre, p) = 3)
                => is_populated(At(cells, p))

\* C2 (Survival): a cell that is Populated before next() and has 2 or 3
\* Populated in-bounds Moore neighbours in the pre-step grid is still
\* Populated after next(); an Empty cell with exactly 2 is still Empty.
C2_Survival ==
    Stepped =>
        \A p \in Positions(pre) :
            /\ (is_populated(At(pre, p)) /\ MooreCount(pre, p) \in {2, 3})
                    => is_populated(At(cells, p))
            /\ (is_empty(At(pre, p)) /\ MooreCount(pre, p) = 2)
                    => is_empty(At(cells, p))

\* C3 (Overpopulation): a cell with 4 or more Populated in-bounds Moore
\* neighbours in the pre-step grid is Empty after next(), whatever its state
\* before.
C3_Overpopulation ==
    Stepped =>
        \A p \in Positions(pre) :
            MooreCount(pre, p) >= 4 => is_empty(At(cells, p))

\* C4 (Snapshot): within one next(), the populated-neighbour count used to
\* decide a cell equals the number of Populated cells neighbour_cells finds
\* around it in the grid as it was when next() was called.
C4_Snapshot ==
    Stepped =>
        \A p \in Positions(pre) :
            counted[p[1] + 1][p[2] + 1] =
                count_populated(Grid_neighbour_cells(pre, p[1], p[2]))

\* C5 (Solitude): a cell with fewer than 2 Populated in-bounds Moore
\* neighbours in the pre-step grid is Empty after next(), whatever its state
\* before; a grid whose Populated cells all have 0 Populated neighbours is
\* entirely Empty after one next().
C5_Solitude ==
    Stepped =>
        /\ SameShape(cells, pre)
        /\ \A p \in Positions(pre) :
                MooreCount(pre, p) < 2 => is_empty(At(cells, p))
        /\ (\A p \in Positions(pre) :
                is_populated(At(pre, p)) => MooreCount(pre, p) = 0)
            => \A p \in Positions(pre) : is_empty(At(cells, p))

\* a next() that found a Populated cell with exactly one Populated neighbour
\* beside a Populated cell that is not alone either
C5_Witness ==
    /\ Stepped
    /\ \E p \in Positions(pre) :
            /\ is_populated(At(pre, p))
            /\ MooreCount(pre, p) = 1
            /\ is_empty(At(cells, p))

\* C6 (Blinker): on a 5x5 grid whose Populated cells are exactly row 2,
\* columns 1, 2, 3, one next() yields the grid whose Populated cells are
\* exactly column 2, rows 1, 2, 3.
C6_Blinker ==
    (Stepped /\ pre = Grid5({<<1, 2>>, <<2, 2>>, <<3, 2>>}))
        => cells = Grid5({<<2, 1>>, <<2, 2>>, <<2, 3>>})

\* C7 (Moore neighbourhood): for a coordinate with row >= 1 and column >= 1,
\* both below the largest u16, neighbours() returns exactly the 8 Moore
\* neighbours, none repeated, never the coordinate itself.
C7_EightNeighbours ==
    (/\ op.name = "neighbours"
     /\ op.column >= 1 /\ op.column < U16Max
     /\ op.row >= 1 /\ op.row < U16Max)
        => /\ ret = "Vec"
           /\ Len(neigh) = 8
           /\ SeqToSet(neigh) = Moore(op.column, op.row)
           /\ Coordinates_new(op.column, op.row) \notin SeqToSet(neigh)

\* C8 (populate out of bounds): populate with column >= width or
\* row >= height returns the out-of-bounds error and leaves every cell and
\* the dimensions as they were.
C8_PopulateOutOfBounds ==
    (op.name = "populate" /\ (op.column >= columns \/ op.row >= rows))
        => /\ ret = "Err"
           /\ cells = pre

\* a failed populate of an existing column, on a grid that holds a Populated
\* cell and an Empty last row
C8_Witness ==
    /\ op.name = "populate"
    /\ op.column < columns
    /\ op.row >= rows
    /\ rows > 0
    /\ ret = "Err"
    /\ is_empty(pre[op.column + 1][rows])
    /\ \E p \in Positions(pre) : is_populated(At(pre, p))

\* C9 (populate in bounds): populate of an in-bounds position succeeds,
\* cell() then reports Populated there, every other cell keeps its state,
\* and populating the same position again leaves the grid unchanged.
C9_PopulateInBounds ==
    (op.name = "populate" /\ op.column < columns /\ op.row < rows)
        => /\ ret = "Ok"
           /\ Grid_cell(cells, op.column, op.row) = Some(Populated)
           /\ SameShape(cells, pre)
           /\ \A p \in Positions(pre) :
                   p # <<op.column, op.row>> => At(cells, p) = At(pre, p)
           /\ Grid_populate(cells, op.column, op.row) =
                   [cells |-> cells, ret |-> "Ok"]
           /\ is_populated(At(pre, <<op.column, op.row>>)) => cells = pre

\* a second populate of a position, on a grid with another Populated cell
\* and an Empty one
C9_Witness ==
    /\ op.name = "populate"
    /\ ret = "Ok"
    /\ is_populated(At(pre, <<op.column, op.row>>))
    /\ \E p, q \in Positions(pre) :
            /\ p # <<op.column, op.row>>
            /\ is_populated(At(cells, p))
            /\ is_empty(At(cells, q))

\* C10 (lookup): on a grid built by Grid::new(W, H), cell(c, r) returns a
\* cell iff c < W and r < H, None otherwise, and never changes the grid.
C10_CellLookup ==
    op.name = "cell"
        => /\ (ret # "None") <=> (op.column < columns /\ op.row < rows)
           /\ ret # "None" => ret = At(cells, <<op.column, op.row>>)
           /\ cells = pre

\* a lookup that finds a Populated cell on a non-square grid, at a column
\* index no row has
C10_Witness ==
    /\ op.name = "cell"
    /\ ret = Populated
    /\ op.column >= rows
    /\ op.column < columns

\* C11 (top-left corner): neighbours() of (row 0, column 0) returns exactly
\* the 3 coordinates (0,1), (1,0), (1,1); the neighbours that would need a
\* component below zero are omitted, not wrapped, not an error.
C11_CornerNeighbours ==
    (op.name = "neighbours" /\ op.column = 0 /\ op.row = 0)
        => /\ ret = "Vec"
           /\ Len(neigh) = 3
           /\ SeqToSet(neigh) = {Coordinates_new(0, 1), Coordinates_new(1, 0),
                                  Coordinates_new(1, 1)}

\* neighbours() was called on the corner and returned
C11_Witness ==
    /\ op.name = "neighbours"
    /\ op.column = 0
    /\ op.row = 0
    /\ ret = "Vec"
    /\ neigh # <<>>

\* the number of Moore neighbours of position p that lie inside grid g
MooreInBounds(g, p) ==
    Cardinality({d \in Deltas :
        /\ p[1] + d[1] >= 0
        /\ p[2] + d[2] >= 0
        /\ p[1] + d[1] < Len(g)
        /\ p[2] + d[2] < Len(g[p[1] + d[1] + 1])})

\* C12 (neighbour_cells): for an in-bounds position, neighbour_cells returns
\* one entry for each Moore neighbour inside the grid, carrying that cell's
\* state, and nothing else: its length is the number of in-bounds Moore
\* neighbours and it holds as many Populated entries as those neighbours do.
C12_NeighbourCells ==
    (/\ op.name = "neighbour_cells"
     /\ op.column < columns
     /\ op.row < rows)
        => /\ Len(neigh) = MooreInBounds(cells, <<op.column, op.row>>)
           /\ count_populated(neigh) = MooreCount(cells, <<op.column, op.row>>)

\* C13 (fresh grid): every cell that cell(x, y) returns on a grid freshly
\* built by Grid::new(columns, rows) is Empty and not Populated.
C13_NewGridEmpty ==
    op.name = "new"
        => \A x \in ColumnIndexes, y \in RowIndexes :
               Grid_cell(cells, x, y) # None
                   => /\ is_empty(Grid_cell(cells, x, y)[1])
                      /\ ~is_populated(Grid_cell(cells, x, y)[1])

\* a freshly built non-square grid on which cell() returns cells
C13_Witness ==
    /\ op.name = "new"
    /\ columns > rows
    /\ rows > 0
    /\ Grid_cell(cells, columns - 1, rows - 1) # None

\* C14 (fixed dimensions): after any sequence of populate (successful or
\* failing) and next() calls on a grid built by Grid::new(W, H), the grid has
\* exactly W columns of exactly H rows each, and cell() returns a value for
\* exactly the positions of [0, W) x [0, H).
C14_DimensionsFixed ==
    /\ Len(cells) = columns
    /\ \A x \in DOMAIN cells : Len(cells[x]) = rows
    /\ {p \in ColumnIndexes \X RowIndexes : Grid_cell(cells, p[1], p[2]) # None}
           = (0..(columns - 1)) \X (0..(rows - 1))

\* a failing populate on a grid that an earlier populate has changed
C14_Witness ==
    /\ op.name = "populate"
    /\ ret = "Err"
    /\ op.column < columns
    /\ \E p \in Positions(cells) : is_populated(At(cells, p))

\* C15 (next is total): next() completes without error on every grid
\* Grid::new can build, and on a zero-sized grid (zero columns or zero rows)
\* it leaves the grid unchanged.
C15_NextTotal ==
    op.name = "next"
        => /\ ret = "Unit"
           /\ (columns = 0 \/ rows = 0) => cells = pre

\* next() returned on a grid of some columns and zero rows
C15_Witness ==
    /\ op.name = "next"
    /\ ret = "Unit"
    /\ columns > 0
    /\ rows = 0

\* the number of Populated cells of grid g
PopulatedCount(g) ==
    Cardinality({p \in Positions(g) : is_populated(At(g, p))})

RECURSIVE NextTimes(_, _)
\* grid g after n calls of next()
NextTimes(g, n) ==
    IF n = 0 THEN g ELSE NextTimes(Grid_next(g, "release").cells, n - 1)

====
